---- MODULE Spec2Model ----
(***************************************************************************)
(* Binary configuration blob decoder of master_service_settings_read(),    *)
(* as exercised by src/lib-master/test-master-service-settings.c.          *)
(*                                                                         *)
(* Bytes are naturals 0..255, byte strings are sequences of bytes, and     *)
(* offsets are 0-based as in C (byte at offset o is buf[o + 1]).           *)
(* An error message is a record [kind, field, str]: kind selects the       *)
(* message text, field is the quoted field name, str the quoted string     *)
(* (version, block name or filter) the message embeds.                     *)
(***************************************************************************)
EXTENDS Integers, Sequences, FiniteSets, TLC

VARIABLES
    input,        \* where the buffer comes from: [kind, idx, blob]
    buf,          \* the bytes handed to the decoder (the file contents)
    pc,           \* the decoder's position
    offset,       \* read offset into buf
    block_end,    \* end offset of the block area being decoded
    sect_end,     \* end offset of the base settings / filter settings area
    cur,          \* fields of the block being decoded
    blocks,       \* blocks decoded so far, in file order
    result,       \* the message of the decode: none, ok, or an error
    rd,           \* last read: byte range [lo, hi) and the area [alo, ahi) it was made in
    engine_calls, \* the strings handed to the filter engine so far
    output,       \* the ConfigBlob handed back, <<>> while there is none
    block_start,  \* offset of the size field of the block being decoded
    test_ok       \* FALSE once an assertion of the test has failed

vars == <<input, buf, pc, offset, block_start, block_end, sect_end, cur,
          blocks, result, output, rd, engine_calls, test_ok>>

----------------------------------------------------------------------------
(* Bytes and byte strings *)

NUL == 0
TAB == 9
LF == 10
SizeLen == 8

\* Size values of 2^24 and more are all read as Huge: every buffer of the
\* model is far shorter, so they compare alike against every area.
Huge == 256 * 256 * 256

Str_N == <<78>>
Str_M == <<77>>
Str_E == <<69>>
Str_F == <<70>>
Str_D == <<68>>
Str_KV == <<107, 61, 118>>
Str_10 == <<49, 46, 48>>
Str_23 == <<50, 46, 51>>
Str_NUL == <<NUL>>

\* "DOVECOT-CONFIG\t"
magic_prefix == <<68, 79, 86, 69, 67, 79, 84, 45, 67, 79, 78, 70, 73, 71, TAB>>

\* "DOVECOT-CONFIG\t1.0\n", 19 bytes
HeaderLine == magic_prefix \o Str_10 \o <<LF>>

\* an 8-byte big-endian size field holding n
Be64(n) ==
    <<0, 0, 0, 0, 0, (n \div 65536) % 256, (n \div 256) % 256, n % 256>>

\* value of the 8-byte big-endian field at offset off of b
Be64Value(b, off) ==
    IF \E k \in 1..5 : b[off + k] # 0
    THEN Huge
    ELSE b[off + 6] * 65536 + b[off + 7] * 256 + b[off + 8]

\* offset of the first byte c of b in [from, to), or -1
FirstIndex(b, from, to, c) ==
    LET S == {i \in from..(to - 1) : b[i + 1] = c}
    IN  IF S = {} THEN -1 ELSE CHOOSE i \in S : \A j \in S : i <= j

\* the bytes of b in [from, to)
Bytes(b, from, to) == SubSeq(b, from + 1, to)

----------------------------------------------------------------------------
(* Messages *)

Msg(kind, field, str) == [kind |-> kind, field |-> field, str |-> str]

NoResult == Msg("none", "", <<>>)
Success == Msg("ok", "", <<>>)

\* "File header doesn't begin with DOVECOT-CONFIG line"
ErrHeaderLine == Msg("HeaderLine", "", <<>>)
\* "Unsupported config file version '<v>'"
ErrVersion(v) == Msg("UnsupportedVersion", "", v)
\* "Full size mismatch"
ErrFullSize == Msg("FullSizeMismatch", "", <<>>)
\* "Area too small when reading size of '<field>'"
ErrAreaTooSmall(field) == Msg("AreaTooSmall", field, <<>>)
\* "'<field>' points outside area"
ErrPointsOutside(field) == Msg("PointsOutside", field, <<>>)
\* "Settings block doesn't end with NUL at offset"
ErrBlockNoNul == Msg("BlockNoNul", "", <<>>)
\* "Duplicate block name '<name>'"
ErrDuplicate(name) == Msg("DuplicateBlock", "", name)
\* "Received invalid filter '<filter>': event filter: syntax error"
ErrInvalidFilter(filter) == Msg("InvalidFilter", "event filter: syntax error", filter)

\* the class of the error taxonomy a message belongs to
Taxonomy(m) ==
    CASE m.kind \in {"HeaderLine", "UnsupportedVersion"} -> "HeaderError"
      [] m.kind = "FullSizeMismatch" -> "SizeMismatchError"
      [] m.kind \in {"AreaTooSmall", "PointsOutside"} -> "AreaBoundsError"
      [] m.kind = "DuplicateBlock" -> "DuplicateBlockError"
      [] m.kind = "InvalidFilter" -> "FilterSyntaxError"
      [] OTHER -> "none"

----------------------------------------------------------------------------
(* The corruption tests' table *)

\* DATA with sizeof()-1 for sizeof()-2: the "\xff" becomes part of the file
DATA_SizeWithSentinel(data) ==
    LET mem == data \o <<255, NUL>>
    IN  [data |-> mem, size |-> Len(mem) - 1]

\* DATA(data): the literal with "\xff" appended (and the literal's own NUL),
\* and the size handed on, which leaves both out
DATA(data) ==
    LET mem == data \o <<255, NUL>>
    IN  [data |-> mem, size |-> Len(mem) - 2]

Test(d, error) == [data |-> d.data, size |-> d.size, error |-> error]

Test_Header_D ==
    Test(DATA(Str_D), ErrHeaderLine)
Test_Header_NoVersion ==
    Test(DATA(magic_prefix), ErrHeaderLine)
\* the same with the newline in place: the header line is then complete
Test_Header_NoNewline_WithNewline ==
    Test(DATA(magic_prefix \o Str_10 \o <<LF>>), ErrHeaderLine)
Test_Header_NoNewline ==
    Test(DATA(magic_prefix \o Str_10), ErrHeaderLine)
Test_Header_Version23 ==
    Test(DATA(magic_prefix \o Str_23 \o <<LF>>), ErrVersion(Str_23))
\* full file size = 1, but file is still truncated
Test_FullSize_Truncated ==
    Test(DATA(HeaderLine \o Be64(1)), ErrFullSize)
\* full file size is 7 bytes, which makes the first block size truncated
Test_BlockSize_Truncated ==
    Test(DATA(HeaderLine \o Be64(7) \o <<0, 0, 0, 0, 0, 0, 0>>),
         ErrAreaTooSmall("block size"))
\* first block size is 0, which is too small
Test_BlockSize_Zero ==
    Test(DATA(HeaderLine \o Be64(8) \o Be64(0)),
         ErrPointsOutside("block name"))
\* first block size is 1, but full file size is too small
Test_BlockSize_Outside ==
    Test(DATA(HeaderLine \o Be64(8) \o Be64(1)),
         ErrPointsOutside("block size"))
\* the same with a block size of 2, which takes the NUL into the block
Test_BlockName_NoNul_Size2 ==
    Test(DATA(HeaderLine \o Be64(10) \o Be64(2) \o Str_N \o Str_NUL),
         ErrBlockNoNul)
\* block name is not NUL-terminated
Test_BlockName_NoNul ==
    Test(DATA(HeaderLine \o Be64(10) \o Be64(1) \o Str_N \o Str_NUL),
         ErrBlockNoNul)
\* settings block size is truncated
Test_BaseSize_Truncated ==
    Test(DATA(HeaderLine \o Be64(17) \o Be64(9) \o Str_N \o Str_NUL
              \o <<0, 0, 0, 0, 0, 0, 0>>),
         ErrAreaTooSmall("base settings size"))
\* base settings size is zero
Test_BaseSize_Zero ==
    Test(DATA(HeaderLine \o Be64(18) \o Be64(10) \o Str_N \o Str_NUL
              \o Be64(0)),
         ErrPointsOutside("base settings error"))
\* the same with a base settings size of 2, which takes the NUL into the area
Test_BaseError_NoNul_Size2 ==
    Test(DATA(HeaderLine \o Be64(20) \o Be64(12) \o Str_N \o Str_NUL
              \o Be64(2) \o Str_E \o Str_NUL),
         ErrPointsOutside("base settings error"))
\* base settings error is not NUL-terminated
Test_BaseError_NoNul ==
    Test(DATA(HeaderLine \o Be64(20) \o Be64(12) \o Str_N \o Str_NUL
              \o Be64(1) \o Str_E \o Str_NUL),
         ErrPointsOutside("base settings error"))
\* filter settings size is truncated
Test_FilterSize_Truncated ==
    Test(DATA(HeaderLine \o Be64(26) \o Be64(18) \o Str_N \o Str_NUL
              \o Be64(1) \o Str_NUL \o <<0, 0, 0, 0, 0, 0, 0>>),
         ErrAreaTooSmall("filter settings size"))
\* filter settings size is zero
Test_FilterSize_Zero ==
    Test(DATA(HeaderLine \o Be64(27) \o Be64(19) \o Str_N \o Str_NUL
              \o Be64(1) \o Str_NUL \o Be64(0)),
         ErrPointsOutside("filter string"))
\* filter string is not NUL-terminated
Test_FilterString_NoNul ==
    Test(DATA(HeaderLine \o Be64(29) \o Be64(21) \o Str_N \o Str_NUL
              \o Be64(1) \o Str_NUL \o Be64(1) \o Str_F \o Str_NUL),
         ErrPointsOutside("filter string"))
\* the same with a filter settings size of 3, one more than the block holds
Test_FilterError_Missing_Size3 ==
    Test(DATA(HeaderLine \o Be64(29) \o Be64(21) \o Str_N \o Str_NUL
              \o Be64(1) \o Str_NUL \o Be64(3) \o Str_F \o Str_NUL),
         ErrPointsOutside("filter settings error"))
\* filter error is missing
Test_FilterError_Missing ==
    Test(DATA(HeaderLine \o Be64(29) \o Be64(21) \o Str_N \o Str_NUL
              \o Be64(1) \o Str_NUL \o Be64(2) \o Str_F \o Str_NUL),
         ErrPointsOutside("filter settings error"))
\* filter error is not NUL-terminated
Test_FilterError_NoNul ==
    Test(DATA(HeaderLine \o Be64(31) \o Be64(23) \o Str_N \o Str_NUL
              \o Be64(1) \o Str_NUL \o Be64(3) \o Str_F \o Str_NUL
              \o Str_E \o Str_NUL),
         ErrPointsOutside("filter settings error"))
\* the same with the filter string left empty
Test_Filter_Invalid_Empty ==
    Test(DATA(HeaderLine \o Be64(30) \o Be64(22) \o Str_N \o Str_NUL
              \o Be64(1) \o Str_NUL \o Be64(3) \o Str_NUL \o Str_NUL
              \o Str_NUL),
         ErrInvalidFilter(Str_F))
\* invalid filter string
Test_Filter_Invalid ==
    Test(DATA(HeaderLine \o Be64(30) \o Be64(22) \o Str_N \o Str_NUL
              \o Be64(1) \o Str_NUL \o Be64(3) \o Str_F \o Str_NUL
              \o Str_NUL),
         ErrInvalidFilter(Str_F))
\* the same with the second block named "M"
Test_Duplicate_SecondM ==
    Test(DATA(HeaderLine \o Be64(39) \o Be64(21) \o Str_N \o Str_NUL
              \o Be64(1) \o Str_NUL \o Be64(2) \o Str_NUL \o Str_NUL
              \o Be64(2) \o Str_M \o Str_NUL),
         ErrDuplicate(Str_N))
\* the same with the first block named "M"
Test_Duplicate_FirstM ==
    Test(DATA(HeaderLine \o Be64(39) \o Be64(21) \o Str_M \o Str_NUL
              \o Be64(1) \o Str_NUL \o Be64(2) \o Str_NUL \o Str_NUL
              \o Be64(2) \o Str_N \o Str_NUL),
         ErrDuplicate(Str_N))
\* Duplicate block name
Test_Duplicate ==
    Test(DATA(HeaderLine \o Be64(39) \o Be64(21) \o Str_N \o Str_NUL
              \o Be64(1) \o Str_NUL \o Be64(2) \o Str_NUL \o Str_NUL
              \o Be64(2) \o Str_N \o Str_NUL),
         ErrDuplicate(Str_N))

tests ==
    << Test_Header_D, Test_Header_NoVersion, Test_Header_NoNewline,
       Test_Header_Version23, Test_FullSize_Truncated,
       Test_BlockSize_Truncated, Test_BlockSize_Zero, Test_BlockSize_Outside,
       Test_BlockName_NoNul, Test_BaseSize_Truncated, Test_BaseSize_Zero,
       Test_BaseError_NoNul, Test_FilterSize_Truncated, Test_FilterSize_Zero,
       Test_FilterString_NoNul, Test_FilterError_Missing,
       Test_FilterError_NoNul, Test_Filter_Invalid, Test_Duplicate >>

\* the file test_input_to_fd() writes: the first size bytes of data
test_input_to_fd(data, size) == SubSeq(data, 1, size)

\* strstr(error, tests[i].error) != NULL
ErrorContains(error, expected) == error = expected

----------------------------------------------------------------------------
(* The data model and the encoder *)

Block(name, base_error, base_data, filter, filter_error) ==
    [name |-> name, base_error |-> base_error, base_data |-> base_data,
     filter |-> filter, filter_error |-> filter_error]

EmptyBlock == Block(<<>>, <<>>, <<>>, <<>>, <<>>)

ConfigBlob(version, bs) == [version |-> version, blocks |-> bs]

NoBlob == <<>>

\* the filter engine's verdict: "k=v" compiles, "F" is a syntax error
CompilableFilters == {Str_KV}

compile_filter(s) == s \in CompilableFilters

\* the base settings area with the payload put before the error string
EncodeBase_PayloadFirst(b) == b.base_data \o b.base_error \o Str_NUL

\* base settings area: the error string, its NUL, then the payload
EncodeBase(b) == b.base_error \o Str_NUL \o b.base_data

\* filter settings area: the filter string and the error string, each with its NUL
EncodeFilter(b) == b.filter \o Str_NUL \o b.filter_error \o Str_NUL

EncodeBlockBody(b) ==
    b.name \o Str_NUL
    \o Be64(Len(EncodeBase(b))) \o EncodeBase(b)
    \o Be64(Len(EncodeFilter(b))) \o EncodeFilter(b)

EncodeBlock(b) == Be64(Len(EncodeBlockBody(b))) \o EncodeBlockBody(b)

RECURSIVE EncodeBlocks(_)
EncodeBlocks(bs) ==
    IF bs = <<>> THEN <<>> ELSE EncodeBlock(Head(bs)) \o EncodeBlocks(Tail(bs))

encode(blob) ==
    magic_prefix \o blob.version \o <<LF>>
    \o Be64(Len(EncodeBlocks(blob.blocks))) \o EncodeBlocks(blob.blocks)

----------------------------------------------------------------------------
(* The bounded cursor and the primitive field readers *)

Max(a, b) == IF a >= b THEN a ELSE b

\* a read of the bytes [lo, hi) made while [alo, ahi) is the active area
Read(lo, hi, alo, ahi) == [lo |-> lo, hi |-> hi, alo |-> alo, ahi |-> ahi]

\* read an 8-byte size at off in the area ending at end; the size must fit
\* in what remains of the area after the field
ReadSize(b, off, end, field) ==
    IF off + SizeLen > end
    THEN [ok |-> FALSE, err |-> ErrAreaTooSmall(field), val |-> 0,
          off |-> off, lo |-> off, hi |-> off]
    ELSE LET size == Be64Value(b, off)
         IN  IF size > end - off - SizeLen
             THEN [ok |-> FALSE, err |-> ErrPointsOutside(field), val |-> 0,
                   off |-> off, lo |-> off, hi |-> off + SizeLen]
             ELSE [ok |-> TRUE, err |-> NoResult, val |-> size,
                   off |-> off + SizeLen, lo |-> off, hi |-> off + SizeLen]

\* the string read done as strlen() followed by the bounds check: the scan
\* for the NUL runs on past the area's end, and past the buffer's when the
\* buffer holds no NUL
ReadStr_Strlen(b, off, end, field) ==
    LET i == FirstIndex(b, off, Len(b), NUL)
    IN  IF i = -1
        THEN [ok |-> FALSE, err |-> ErrPointsOutside(field), val |-> <<>>,
              off |-> off, lo |-> off, hi |-> Len(b) + 1]
        ELSE IF i + 1 > end
        THEN [ok |-> FALSE, err |-> ErrPointsOutside(field), val |-> <<>>,
              off |-> off, lo |-> off, hi |-> i + 1]
        ELSE [ok |-> TRUE, err |-> NoResult, val |-> Bytes(b, off, i),
              off |-> i + 1, lo |-> off, hi |-> i + 1]

\* read a NUL-terminated string at off in the area ending at end: the scan
\* for the NUL stops at the area's end
ReadStr(b, off, end, field) ==
    LET i == FirstIndex(b, off, end, NUL)
    IN  IF i = -1
        THEN [ok |-> FALSE, err |-> ErrPointsOutside(field), val |-> <<>>,
              off |-> off, lo |-> off, hi |-> Max(off, end)]
        ELSE [ok |-> TRUE, err |-> NoResult, val |-> Bytes(b, off, i),
              off |-> i + 1, lo |-> off, hi |-> i + 1]

\* the header gate: the offset after the header line, or the error
HeaderGate(b) ==
    LET eol == FirstIndex(b, 0, Len(b), LF)
        n == Len(magic_prefix)
    IN  IF Len(b) < n \/ SubSeq(b, 1, n) # magic_prefix \/ eol = -1
        THEN [ok |-> FALSE, err |-> ErrHeaderLine, off |-> 0]
        ELSE IF Bytes(b, n, eol) # Str_10
        THEN [ok |-> FALSE, err |-> ErrVersion(Bytes(b, n, eol)), off |-> 0]
        ELSE [ok |-> TRUE, err |-> NoResult, off |-> eol + 1]

----------------------------------------------------------------------------
(* The inputs *)

MaxBlocks == 3
MaxPayloadLen == 2

Names == {Str_N, Str_M}
ErrStrs == {<<>>, Str_E}
Filters == {<<>>, Str_KV, Str_F}
Payloads ==
    {[i \in 1..k |-> IF i % 2 = 1 THEN NUL ELSE 255] : k \in 0..MaxPayloadLen}

\* the first block of a blob varies in every field; the later ones are plain
\* blocks of either name, or one with a filter that does not compile
FirstBlocks ==
    {Block(n, be, bd, f, fe) :
        n \in Names, be \in ErrStrs, bd \in Payloads, f \in Filters,
        fe \in ErrStrs}
LaterBlocks ==
    {Block(n, <<>>, <<>>, <<>>, <<>>) : n \in Names}
    \cup {Block(Str_M, <<>>, <<>>, Str_F, <<>>)}

RECURSIVE BlockSeqs(_)
BlockSeqs(n) ==
    IF n = 0 THEN {<<>>}
    ELSE IF n = 1 THEN {<<b>> : b \in FirstBlocks}
    ELSE {Append(bs, b) : bs \in BlockSeqs(n - 1), b \in LaterBlocks}

Blobs == {ConfigBlob(Str_10, bs) : bs \in UNION {BlockSeqs(n) : n \in 0..MaxBlocks}}

\* corrupted files: every proper prefix, every one-byte change to 0, 255 or
\* the neighbouring values, and one byte of garbage appended
SubstBytes(c) == {NUL, 255, (c + 1) % 256, (c + 255) % 256} \ {c}
Prefixes(x) == {SubSeq(x, 1, k) : k \in 0..(Len(x) - 1)}
Substs(x) ==
    UNION {{[x EXCEPT ![p] = v] : v \in SubstBytes(x[p])} : p \in 1..Len(x)}
Appends(x) == {x \o <<g>> : g \in {NUL, 255}}

TestFiles == {test_input_to_fd(tests[i].data, tests[i].size) : i \in 1..Len(tests)}
SampleBlobs ==
    {ConfigBlob(Str_10, <<Block(Str_N, Str_E, <<NUL, 255>>, Str_KV, Str_E),
                          Block(Str_M, <<>>, <<>>, <<>>, <<>>)>>)}
RawFiles ==
    UNION {Prefixes(x) \cup Substs(x) \cup Appends(x) :
              x \in TestFiles \cup {encode(b) : b \in SampleBlobs}}

Input(kind, idx, blob) == [kind |-> kind, idx |-> idx, blob |-> blob]

----------------------------------------------------------------------------
(* The decoder *)

\* the state in which master_service_settings_read() starts on a file
Start(in, file) ==
    /\ input = in
    /\ buf = file
    /\ pc = "header"
    /\ offset = 0
    /\ block_start = 0
    /\ block_end = 0
    /\ sect_end = 0
    /\ cur = EmptyBlock
    /\ blocks = <<>>
    /\ result = NoResult
    /\ output = NoBlob
    /\ rd = Read(0, 0, 0, Len(file))
    /\ engine_calls = <<>>

Init ==
    /\ test_ok = TRUE
    /\ \/ Start(Input("test", 1, NoBlob),
                test_input_to_fd(tests[1].data, tests[1].size))
       \/ \E b \in Blobs : Start(Input("encoded", 0, b), encode(b))
       \/ \E x \in RawFiles : Start(Input("raw", 0, NoBlob), x)

\* every error aborts the decode: the message is kept, no blob is handed back
Fail(err) ==
    /\ result' = err
    /\ pc' = "done"
    /\ UNCHANGED <<offset, block_start, block_end, sect_end, cur, blocks, output>>

decode_header ==
    /\ pc = "header"
    /\ LET r == HeaderGate(buf)
           eol == FirstIndex(buf, 0, Len(buf), LF)
       IN  /\ rd' = Read(0, IF eol = -1 THEN Len(buf)
                            ELSE Max(eol + 1, IF Len(buf) < Len(magic_prefix)
                                              THEN 0 ELSE Len(magic_prefix)),
                         0, Len(buf))
           /\ IF r.ok
              THEN /\ offset' = r.off
                   /\ pc' = "full_size"
                   /\ UNCHANGED <<block_start, block_end, sect_end, cur, blocks,
                                  result, output>>
              ELSE Fail(r.err)
    /\ UNCHANGED <<input, buf, engine_calls, test_ok>>

\* the full size must be the number of bytes that follow its field
decode_full_size ==
    /\ pc = "full_size"
    /\ IF offset + SizeLen > Len(buf)
       THEN /\ Fail(ErrAreaTooSmall("full size"))
            /\ rd' = Read(offset, offset, 0, Len(buf))
       ELSE /\ rd' = Read(offset, offset + SizeLen, 0, Len(buf))
            /\ IF Be64Value(buf, offset) # Len(buf) - offset - SizeLen
               THEN Fail(ErrFullSize)
               ELSE /\ offset' = offset + SizeLen
                    /\ pc' = "block_size"
                    /\ UNCHANGED <<block_start, block_end, sect_end, cur,
                                   blocks, result, output>>
    /\ UNCHANGED <<input, buf, engine_calls, test_ok>>

\* the block loop: done when the top-level area is used up, else the next
\* block's size, which carves the block area
decode_block_size ==
    /\ pc = "block_size"
    /\ IF offset = Len(buf)
       THEN /\ result' = Success
            /\ output' = ConfigBlob(Str_10, blocks)
            /\ pc' = "done"
            /\ UNCHANGED <<offset, block_start, block_end, sect_end, cur,
                           blocks, rd>>
       ELSE LET r == ReadSize(buf, offset, Len(buf), "block size")
            IN  /\ rd' = Read(r.lo, r.hi, offset, Len(buf))
                /\ block_start' = offset
                /\ cur' = EmptyBlock
                /\ IF r.ok
                   THEN /\ offset' = r.off
                        /\ block_end' = r.off + r.val
                        /\ pc' = "block_nul"
                        /\ UNCHANGED <<sect_end, blocks, result, output>>
                   ELSE /\ result' = r.err
                        /\ pc' = "done"
                        /\ UNCHANGED <<offset, block_end, sect_end, blocks,
                                       output>>
    /\ UNCHANGED <<input, buf, engine_calls, test_ok>>

\* the block's end left unchecked
decode_block_nul_Unchecked ==
    /\ pc = "block_nul"
    /\ pc' = "block_name"
    /\ UNCHANGED <<offset, block_start, block_end, sect_end, cur, blocks,
                   result, output, rd>>
    /\ UNCHANGED <<input, buf, engine_calls, test_ok>>

\* a block that is not empty ends with a NUL
decode_block_nul ==
    /\ pc = "block_nul"
    /\ IF block_end > offset
       THEN /\ rd' = Read(block_end - 1, block_end, offset, block_end)
            /\ IF buf[block_end] # NUL
               THEN Fail(ErrBlockNoNul)
               ELSE /\ pc' = "block_name"
                    /\ UNCHANGED <<offset, block_start, block_end, sect_end,
                                   cur, blocks, result, output>>
       ELSE /\ pc' = "block_name"
            /\ UNCHANGED <<offset, block_start, block_end, sect_end, cur,
                           blocks, result, output, rd>>
    /\ UNCHANGED <<input, buf, engine_calls, test_ok>>

\* one string field of the block, read in the area ending at end
ReadStrField(field, end, next) ==
    LET r == ReadStr(buf, offset, end, field)
    IN  /\ rd' = Read(r.lo, r.hi, offset, end)
        /\ IF r.ok
           THEN /\ offset' = r.off
                /\ pc' = next
                /\ UNCHANGED <<block_start, block_end, sect_end, blocks,
                               result, output>>
           ELSE /\ Fail(r.err)
        /\ UNCHANGED <<input, buf, engine_calls, test_ok>>

\* one size field of the block, which carves the section area
ReadSizeField(field, next) ==
    LET r == ReadSize(buf, offset, block_end, field)
    IN  /\ rd' = Read(r.lo, r.hi, offset, block_end)
        /\ IF r.ok
           THEN /\ offset' = r.off
                /\ sect_end' = r.off + r.val
                /\ pc' = next
                /\ UNCHANGED <<block_start, block_end, cur, blocks, result,
                               output>>
           ELSE /\ Fail(r.err)
        /\ UNCHANGED <<input, buf, engine_calls, test_ok>>

decode_block_name ==
    /\ pc = "block_name"
    /\ ReadStrField("block name", block_end, "block_dup")
    /\ LET r == ReadStr(buf, offset, block_end, "block name")
       IN  IF r.ok THEN cur' = [cur EXCEPT !.name = r.val] ELSE TRUE

\* block names are unique in the file
decode_block_dup ==
    /\ pc = "block_dup"
    /\ IF \E i \in 1..Len(blocks) : blocks[i].name = cur.name
       THEN Fail(ErrDuplicate(cur.name))
       ELSE /\ pc' = "base_size"
            /\ UNCHANGED <<offset, block_start, block_end, sect_end, cur,
                           blocks, result, output>>
    /\ UNCHANGED <<input, buf, rd, engine_calls, test_ok>>

decode_base_size ==
    /\ pc = "base_size"
    /\ ReadSizeField("base settings size", "base_error")

\* the error string lies in the base settings area; the rest of the area is
\* the payload, which is skipped
decode_base_error ==
    /\ pc = "base_error"
    /\ LET r == ReadStr(buf, offset, sect_end, "base settings error")
       IN  /\ rd' = Read(r.lo, r.hi, offset, sect_end)
           /\ IF r.ok
              THEN /\ cur' = [cur EXCEPT !.base_error = r.val,
                                         !.base_data = Bytes(buf, r.off, sect_end)]
                   /\ offset' = sect_end
                   /\ pc' = "filter_size"
                   /\ UNCHANGED <<block_start, block_end, sect_end, blocks,
                                  result, output>>
              ELSE Fail(r.err)
    /\ UNCHANGED <<input, buf, engine_calls, test_ok>>

decode_filter_size ==
    /\ pc = "filter_size"
    /\ ReadSizeField("filter settings size", "filter_string")

decode_filter_string ==
    /\ pc = "filter_string"
    /\ ReadStrField("filter string", sect_end, "filter_error")
    /\ LET r == ReadStr(buf, offset, sect_end, "filter string")
       IN  IF r.ok THEN cur' = [cur EXCEPT !.filter = r.val] ELSE TRUE

decode_filter_error ==
    /\ pc = "filter_error"
    /\ ReadStrField("filter settings error", sect_end, "filter_compile")
    /\ LET r == ReadStr(buf, offset, sect_end, "filter settings error")
       IN  IF r.ok THEN cur' = [cur EXCEPT !.filter_error = r.val] ELSE TRUE

\* a filter that is not empty goes to the filter engine; the block is then
\* kept and the next one starts at the block area's end
decode_filter_compile ==
    /\ pc = "filter_compile"
    /\ IF cur.filter # <<>>
       THEN /\ engine_calls' = Append(engine_calls, cur.filter)
            /\ IF compile_filter(cur.filter)
               THEN /\ blocks' = Append(blocks, cur)
                    /\ offset' = block_end
                    /\ pc' = "block_size"
                    /\ UNCHANGED <<block_start, block_end, sect_end, cur,
                                   result, output>>
               ELSE Fail(ErrInvalidFilter(cur.filter))
       ELSE /\ blocks' = Append(blocks, cur)
            /\ offset' = block_end
            /\ pc' = "block_size"
            /\ UNCHANGED <<block_start, block_end, sect_end, cur, result,
                           output, engine_calls>>
    /\ UNCHANGED <<input, buf, rd, test_ok>>

----------------------------------------------------------------------------
(* The test's loop *)

\* test_assert_idx(master_service_settings_read(...) == -1, i);
\* test_assert_idx(strstr(error, tests[i].error) != NULL, i);
test_assert ==
    /\ pc = "done"
    /\ input.kind = "test"
    /\ test_ok' = (test_ok /\ result # Success
                           /\ ErrorContains(result, tests[input.idx].error))
    /\ pc' = "asserted"
    /\ UNCHANGED <<input, buf, offset, block_start, block_end, sect_end, cur,
                   blocks, result, output, rd, engine_calls>>

\* the next element of tests[]
test_next ==
    /\ pc = "asserted"
    /\ input.idx < Len(tests)
    /\ LET i == input.idx + 1
           file == test_input_to_fd(tests[i].data, tests[i].size)
       IN  /\ input' = Input("test", i, NoBlob)
           /\ buf' = file
           /\ pc' = "header"
           /\ offset' = 0
           /\ block_start' = 0
           /\ block_end' = 0
           /\ sect_end' = 0
           /\ cur' = EmptyBlock
           /\ blocks' = <<>>
           /\ result' = NoResult
           /\ output' = NoBlob
           /\ rd' = Read(0, 0, 0, Len(file))
           /\ engine_calls' = <<>>
    /\ UNCHANGED test_ok

Next ==
    \/ decode_header
    \/ decode_full_size
    \/ decode_block_size
    \/ decode_block_nul
    \/ decode_block_name
    \/ decode_block_dup
    \/ decode_base_size
    \/ decode_base_error
    \/ decode_filter_size
    \/ decode_filter_string
    \/ decode_filter_error
    \/ decode_filter_compile
    \/ test_assert
    \/ test_next

Spec == Init /\ [][Next]_vars

----------------------------------------------------------------------------
(* Properties *)

Done == pc \in {"done", "asserted"}

\* the assertions of the tests at the given places of tests[] hold
TestsHold(idxs) ==
    (input.kind = "test" /\ pc = "asserted" /\ input.idx \in idxs) => test_ok

\* the buffer starts with the header line of version 1.0
HeaderOk == Len(buf) >= Len(HeaderLine) /\ SubSeq(buf, 1, Len(HeaderLine)) = HeaderLine

\* ... and its full size field is there
FullSizePresent == HeaderOk /\ Len(buf) >= Len(HeaderLine) + SizeLen

\* offset of the first byte after the full size field
BodyStart == Len(HeaderLine) + SizeLen

\* ... and its full size field holds the number of bytes after it, of which
\* there is at least one: the decoder has entered the block at block_start
InBlocks ==
    /\ FullSizePresent
    /\ Be64Value(buf, Len(HeaderLine)) = Len(buf) - BodyStart
    /\ Len(buf) > BodyStart

Names_of(bs) == {bs[i].name : i \in 1..Len(bs)}

\* every read so far was made inside the active area, and that inside the buffer
ReadsInBounds ==
    /\ 0 <= rd.alo /\ rd.alo <= rd.ahi /\ rd.ahi <= Len(buf)
    /\ rd.lo = rd.hi \/ (rd.alo <= rd.lo /\ rd.lo < rd.hi /\ rd.hi <= rd.ahi)
    /\ offset <= Len(buf)

FiveErrors ==
    {"HeaderError", "SizeMismatchError", "AreaBoundsError",
     "DuplicateBlockError", "FilterSyntaxError"}

PcRank ==
    CASE pc = "header" -> 0
      [] pc = "full_size" -> 1
      [] pc = "block_size" -> 2
      [] pc = "block_nul" -> 3
      [] pc = "block_name" -> 4
      [] pc = "block_dup" -> 5
      [] pc = "base_size" -> 6
      [] pc = "base_error" -> 7
      [] pc = "filter_size" -> 8
      [] pc = "filter_string" -> 9
      [] pc = "filter_error" -> 10
      [] pc = "filter_compile" -> 11
      [] OTHER -> 12
Progress ==
    IF Done THEN 16 * (Len(buf) + 1)
    ELSE 16 * (IF pc = "block_size" THEN offset ELSE block_start) + PcRank

C1_Safe ==
    /\ ReadsInBounds
    /\ Done \/ ENABLED Next
    /\ Progress <= 16 * (Len(buf) + 1)
    /\ Done => \/ result = Success
               \/ Taxonomy(result) \in FiveErrors
               \/ result = ErrBlockNoNul

NoNul(str) == \A i \in 1..Len(str) : str[i] # NUL
ValidBlob(b) ==
    /\ \A i, j \in 1..Len(b.blocks) :
           b.blocks[i].name = b.blocks[j].name => i = j
    /\ \A i \in 1..Len(b.blocks) :
           LET k == b.blocks[i]
           IN  /\ NoNul(k.name) /\ NoNul(k.base_error)
               /\ NoNul(k.filter) /\ NoNul(k.filter_error)
               /\ k.filter = <<>> \/ compile_filter(k.filter)

\* C2: the encoding of a valid blob is decoded without error, and to a blob
\* of the same version with the same blocks, field by field.
C2_RoundTrip ==
    (input.kind = "encoded" /\ ValidBlob(input.blob)) =>
        /\ result \in {NoResult, Success}
        /\ Done => /\ result = Success
                   /\ output # NoBlob
                   /\ output.version = input.blob.version
                   /\ Len(output.blocks) = Len(input.blob.blocks)
                   /\ {output.blocks[i] : i \in 1..Len(output.blocks)}
                        = {input.blob.blocks[i] : i \in 1..Len(input.blob.blocks)}

\* a blob of several blocks, one with an error string and a payload that
\* holds a NUL, has made the round trip
C2_Witness ==
    /\ pc = "done"
    /\ input.kind = "encoded"
    /\ ValidBlob(input.blob)
    /\ Len(input.blob.blocks) >= 2
    /\ input.blob.blocks[1].base_data = <<NUL, 255>>
    /\ input.blob.blocks[1].base_error = Str_E
    /\ input.blob.blocks[1].filter = Str_KV
    /\ result = Success

\* C3: after a valid header, a full size field that differs from the number
\* of bytes that follow it makes the decode fail with "Full size mismatch",
\* whatever follows; tests[] has the truncated case.
C3_FullSizeMismatch ==
    /\ (Done /\ FullSizePresent
             /\ Be64Value(buf, Len(HeaderLine)) # Len(buf) - BodyStart)
          => result = ErrFullSize
    /\ TestsHold({5})

\* the blocks of a valid blob follow a full size field that is off by one
C3_Witness ==
    /\ pc = "done"
    /\ result = ErrFullSize
    /\ \E b \in SampleBlobs :
           /\ Len(buf) = Len(encode(b))
           /\ Bytes(buf, BodyStart, Len(buf)) = Bytes(encode(b), BodyStart, Len(buf))
           /\ Be64Value(buf, Len(HeaderLine)) = Len(buf) - BodyStart + 1

\* C4: the decoder gets past the header only when the buffer starts with
\* "DOVECOT-CONFIG\t1.0\n"; without the marker, the tab or a newline in the
\* buffer the decode fails with the header line error; with them and another
\* version it fails with the unsupported version error holding the version.
C4_HeaderGate ==
    LET n == Len(magic_prefix)
        marker == Len(buf) >= n /\ SubSeq(buf, 1, n) = magic_prefix
        eol == FirstIndex(buf, 0, Len(buf), LF)
    IN  /\ (pc # "header" /\ result.kind \notin {"HeaderLine", "UnsupportedVersion"})
              => HeaderOk
        /\ (Done /\ (~marker \/ eol = -1)) => result = ErrHeaderLine
        /\ (Done /\ marker /\ eol # -1 /\ Bytes(buf, n, eol) # Str_10)
              => result = ErrVersion(Bytes(buf, n, eol))
        /\ TestsHold({1, 2, 3, 4})

\* the buffer ends right after "DOVECOT-CONFIG\t1.0"
C4_Witness ==
    /\ pc = "done"
    /\ buf = magic_prefix \o Str_10
    /\ result = ErrHeaderLine

\* place of the first block of bs that has the name of a block before it, or 0
FirstRepeat(bs) ==
    LET S == {j \in 1..Len(bs) : \E i \in 1..(j - 1) : bs[i].name = bs[j].name}
    IN  IF S = {} THEN 0 ELSE CHOOSE j \in S : \A k \in S : j <= k

BlockFields(b, start, top) ==
    LET r1 == ReadSize(b, start, top, "block size")
        bend == r1.off + r1.val
        r2 == ReadStr(b, r1.off, bend, "block name")
        r3 == ReadSize(b, r2.off, bend, "base settings size")
        r4 == ReadStr(b, r3.off, r3.off + r3.val, "base settings error")
        r5 == ReadSize(b, r3.off + r3.val, bend, "filter settings size")
        r6 == ReadStr(b, r5.off, r5.off + r5.val, "filter string")
        r7 == ReadStr(b, r6.off, r5.off + r5.val, "filter settings error")
        F(field, r) == [unfit |-> field, err |-> r.err, sized |-> r1.ok,
                        body |-> r1.off, bend |-> bend,
                        named |-> r1.ok /\ r2.ok, name |-> r2.val,
                        filter |-> r6.val]
    IN  IF ~r1.ok THEN F("block size", r1)
        ELSE IF ~r2.ok THEN F("block name", r2)
        ELSE IF ~r3.ok THEN F("base settings size", r3)
        ELSE IF ~r4.ok THEN F("base settings error", r4)
        ELSE IF ~r5.ok THEN F("filter settings size", r5)
        ELSE IF ~r6.ok THEN F("filter string", r6)
        ELSE IF ~r7.ok THEN F("filter settings error", r7)
        ELSE F("none", r7)

\* the block at block_start is empty or ends with NUL
EndsWithNul(f) == f.sized => (f.bend = f.body \/ buf[f.bend] = NUL)

\* the block at block_start does not have the name of a block before it
NewName(f) == f.named => f.name \notin Names_of(blocks)

RECURSIVE NonEmptyFilters(_)
NonEmptyFilters(bs) ==
    IF bs = <<>> THEN <<>>
    ELSE IF Head(bs).filter = <<>> THEN NonEmptyFilters(Tail(bs))
    ELSE <<Head(bs).filter>> \o NonEmptyFilters(Tail(bs))

\* C7: the filter engine is handed exactly the filter strings that are not
\* empty, each after the two strings of its filter area were read; a filter
\* that does not compile ends the decode with the invalid filter error
\* holding the string and the engine's message, and no blob is handed back,
\* whatever blocks came before; a block with an empty filter is kept without
\* the engine being asked. tests[] has both cases.
C7_FilterCompile ==
    /\ engine_calls =
          NonEmptyFilters(blocks)
          \o (IF result.kind = "InvalidFilter" THEN <<cur.filter>> ELSE <<>>)
    /\ result.kind = "InvalidFilter" =>
          /\ result = ErrInvalidFilter(cur.filter)
          /\ cur.filter # <<>>
          /\ ~compile_filter(cur.filter)
          /\ rd = Read(offset - Len(cur.filter_error) - 1, offset,
                       offset - Len(cur.filter_error) - 1, sect_end)
          /\ buf[offset] = NUL
    /\ (Done /\ result # Success) => output = NoBlob
    /\ (Done /\ input.kind = "encoded"
             /\ \A i, j \in 1..Len(input.blob.blocks) :
                    input.blob.blocks[i].name = input.blob.blocks[j].name => i = j)
          => (result = Success <=>
                 \A i \in 1..Len(input.blob.blocks) :
                     \/ input.blob.blocks[i].filter = <<>>
                     \/ compile_filter(input.blob.blocks[i].filter))
    /\ TestsHold({18, 19})

\* a block with a filter that does not compile follows a block with an
\* empty filter, which was kept
C7_Witness ==
    /\ pc = "done"
    /\ Len(blocks) = 1
    /\ blocks[1].filter = <<>>
    /\ engine_calls = <<Str_F>>
    /\ result = ErrInvalidFilter(Str_F)
    /\ output = NoBlob

\* C8: with the block's name and base settings size read, a base settings
\* area that holds no NUL (it is empty, or one byte that is not NUL) makes
\* the decode fail with "'base settings error' points outside area", also
\* when a NUL follows right after the area inside the block; tests[] has
\* both cases.
C8_BaseErrorInsideArea ==
    /\ [][(pc = "base_error" /\ \A i \in offset..(sect_end - 1) : buf[i + 1] # NUL)
            => (pc' = "done" /\ result' = ErrPointsOutside("base settings error"))]_vars
    /\ [](TestsHold({11, 12}))

\* a base settings area of one byte that is not NUL, with a NUL after it in
\* the block
C8_Witness ==
    /\ pc = "done"
    /\ result = ErrPointsOutside("base settings error")
    /\ sect_end = offset + 1
    /\ buf[offset + 1] # NUL
    /\ sect_end < block_end
    /\ buf[sect_end + 1] = NUL

\* C9: a block of one byte or more that fits in the top-level area and whose
\* last byte is not NUL fails with "Settings block doesn't end with NUL",
\* before its name is read, also when a NUL follows right after the block;
\* tests[] has the case.
C9_BlockEndsWithNul ==
    /\ (Done /\ InBlocks) =>
          LET r == ReadSize(buf, block_start, Len(buf), "block size")
          IN  (r.ok /\ r.val >= 1 /\ buf[r.off + r.val] # NUL)
                 <=> result = ErrBlockNoNul
    /\ result = ErrBlockNoNul => (cur = EmptyBlock /\ offset = block_start + SizeLen)
    /\ TestsHold({9})

\* the name fills the block without a NUL, and a NUL follows the block
C9_Witness ==
    /\ pc = "done"
    /\ result = ErrBlockNoNul
    /\ block_end > offset
    /\ \A i \in offset..(block_end - 1) : buf[i + 1] # NUL
    /\ block_end < Len(buf)
    /\ buf[block_end + 1] = NUL

\* C10: a block that has the name of a block decoded before it fails with
\* the duplicate error holding the name once the name is read, before its
\* base settings are; a block that holds the name alone fails so, and not
\* on the base settings size; tests[] has the case.
C10_DuplicateBeforeBase ==
    /\ (Done /\ InBlocks /\ result # Success) =>
          LET f == BlockFields(buf, block_start, Len(buf))
          IN  (f.named /\ EndsWithNul(f) /\ f.name \in Names_of(blocks))
                 <=> result.kind = "DuplicateBlock"
    /\ result.kind = "DuplicateBlock" =>
          /\ result = ErrDuplicate(cur.name)
          /\ cur = [EmptyBlock EXCEPT !.name = cur.name]
          /\ offset = block_start + SizeLen + Len(cur.name) + 1
    /\ TestsHold({19})

\* the second block holds its name alone
C10_Witness ==
    /\ pc = "done"
    /\ result = ErrDuplicate(Str_N)
    /\ Len(blocks) = 1
    /\ offset = block_end
    /\ block_end = Len(buf)

====
